---------------------------- MODULE Spec2Model ----------------------------
(***************************************************************************)
(* Model of quarkchain/cluster/master.py: the Master coordinator of a      *)
(* sharded cluster.                                                        *)
(*                                                                         *)
(*   Spec        the root-block update serializer (updateRootBlock,        *)
(*               addRootBlock, updateRooBlockAsync, broadcastRpc) of a     *)
(*               Master whose cluster is up;                               *)
(*   SpecBringUp the bring-up of the cluster (__initCluster,               *)
(*               __connectToSlaves, __setupSlaveToSlaveConnections,        *)
(*               shutdown, SlaveConnection.close);                         *)
(*   SpecForward the forwarding rule of a slave link                       *)
(*               (getConnectionToForward, validateConnection);             *)
(*   SpecMining  the mining dispatcher (getNextBlockToMine and its two     *)
(*               helpers);                                                 *)
(*   SpecTx      the fan-out of addTransaction.                            *)
(*                                                                         *)
(* All coroutines run on one asyncio event loop: the code between two      *)
(* awaits is one atomic step, and every action below is such a step.      *)
(***************************************************************************)
EXTENDS Integers, Sequences, FiniteSets, TLC

\* ------------------------------------------------------------------ bounds

\* number of slaves of the cluster configuration
NumSlaves == 2

\* number of root blocks that arrive in one behaviour
MaxBlocks == 3

\* number of remote peers the network collaborator may hold
NumPeers == 1

\* longest shard-mask list of a configured slave
MaxMaskListLen == 1

\* number of frames and connections the forwarding rule is applied to
MaxFrames == 3

\* highest block height an EcoInfo may report
MaxHeight == 1

\* highest difficulty of an EcoInfo and of the next root block
MaxDifficulty == 2

\* highest coinbaseAmount and unconfirmedHeadersCoinbaseAmount of an EcoInfo
MaxAmount == 1

\* longest header list of a GET_UNCONFIRMED_HEADERS response
MaxHeaders == 1

\* env.config.PROOF_OF_PROGRESS_BLOCKS
ProofOfProgressBlocks == 1

\* env.config.SHARD_SIZE, read by MasterServer.__getShardSize
ShardSize == 2

Slaves == 1..NumSlaves
Peers == 1..NumPeers
Shards == 0..(ShardSize - 1)

VARIABLES
    \* ---- MasterServer fields
    branchToSlaves,        \* branch value -> sequence of slaves (a dict: its DOMAIN are the keys)
    slavePool,             \* set of slave connections
    clusterActiveFuture,   \* "pending" | "result" | "exception"
    shutdownFuture,        \* "pending" | "result"
    rootBlockUpdateQueue,  \* deque of root blocks (block ids)
    isUpdatingRootBlock,   \* BOOLEAN
    network,               \* [attached: BOOLEAN, peers: SUBSET Peers]; attached = FALSE is network None
    \* ---- environment
    clusterConfig,         \* the configured slave list: sequence of [id, shardMaskList]
    outcome,               \* outcome[b]: what rootState.addBlock does for block b when it is called
    \* ---- coroutines
    drains,                \* sequence of updateRooBlockAsync activations, in order of creation
    initPc,                \* position of the __initCluster task
    slaveIdx,              \* index of the slave __connectToSlaves is working on
    meshTodo,              \* slaves __setupSlaveToSlaveConnections has not yet iterated over
    meshCur,               \* the slave whose CONNECT_TO_SLAVES response is awaited (0: none)
    closed,                \* slave links that were closed
    mine,                  \* the activation of getNextBlockToMine
    tx,                    \* the activation of addTransaction
    fwd,                   \* what the forwarding rule was applied to, and its results
    \* ---- observation (history) variables
    addBlockLog,           \* blocks rootState.addBlock was called on, in call order
    poppedLog,             \* blocks popped from the queue, in pop order
    slaveRecv,             \* slaveRecv[s]: the ADD_ROOT_BLOCK_REQUESTs slave s received, in order
    slaveAnswered,         \* slaveAnswered[s]: number of ADD_ROOT_BLOCK responses slave s has sent
    connectSent,           \* slaves a CONNECT_TO_SLAVES request was sent to
    mismatchSeen,          \* some PING response differed from the configuration
    meshFailed,            \* some CONNECT_TO_SLAVES response carried a non-empty slot
    meshOk,                \* slaves that answered CONNECT_TO_SLAVES with one empty slot per target
    dialCount              \* dialCount[s]: number of SlaveConnections created for slave s

rootVars == <<rootBlockUpdateQueue, isUpdatingRootBlock, outcome, drains,
              addBlockLog, poppedLog, slaveRecv, slaveAnswered>>
bringUpVars == <<branchToSlaves, slavePool, clusterActiveFuture, shutdownFuture,
                 clusterConfig, initPc, slaveIdx, meshTodo, meshCur, connectSent,
                 mismatchSeen, meshFailed, meshOk, closed, dialCount>>
clientVars == <<mine, tx, fwd>>
vars == <<rootVars, bringUpVars, network, clientVars>>

\* ------------------------------------------------------- shards and masks

RECURSIVE Pow2(_)
Pow2(n) == IF n = 0 THEN 1 ELSE 2 * Pow2(n - 1)

\* the shard-mask values over ShardSize shards
Masks == 1..(Pow2(ShardSize) - 1)

\* ShardMask.containShardId: the mask selects the shard
ContainShardId(mask, shardId) == (mask \div Pow2(shardId)) % 2 = 1

\* Branch.create(shardSize, shardId).value
BranchCreate(shardSize, shardId) == shardSize + shardId

\* SlaveConnection.hasShard
HasShard(shardMaskList, shardId) ==
    \E i \in 1..Len(shardMaskList) : ContainShardId(shardMaskList[i], shardId)

RECURSIVE SeqsUpTo(_, _)
SeqsUpTo(S, n) ==
    IF n = 0 THEN {<<>>}
    ELSE LET shorter == SeqsUpTo(S, n - 1)
         IN shorter \cup {Append(q, x) : q \in {p \in shorter : Len(p) = n - 1}, x \in S}

\* the shard-mask lists a slave may be configured with: SlaveConnection.__init__
\* checks len(shardMaskList) > 0
MaskLists == {l \in SeqsUpTo(Masks, MaxMaskListLen) : Len(l) > 0}


\* ------------------------------------------- the state of a cluster that is up

AllSlaves == [i \in 1..NumSlaves |-> i]

\* a configuration in which slave i serves one shard, shard (i - 1) mod ShardSize
PartitionedConfig ==
    [i \in 1..NumSlaves |-> [id |-> i, shardMaskList |-> <<Pow2((i - 1) % ShardSize)>>]]

\* a configuration in which every slave serves every shard
FullConfig == [i \in 1..NumSlaves |-> [id |-> i, shardMaskList |-> <<Pow2(ShardSize) - 1>>]]

\* the Master after MasterServer.__initCluster has completed on FullConfig
ClusterUp ==
    /\ clusterConfig = FullConfig
    /\ slavePool = Slaves
    /\ branchToSlaves = [b \in {BranchCreate(ShardSize, sh) : sh \in Shards} |-> AllSlaves]
    /\ clusterActiveFuture = "result"
    /\ shutdownFuture = "pending"
    /\ initPc = "done"
    /\ slaveIdx = NumSlaves + 1
    /\ meshTodo = {}
    /\ meshCur = 0
    /\ connectSent = Slaves
    /\ mismatchSeen = FALSE
    /\ meshFailed = FALSE
    /\ meshOk = Slaves
    /\ closed = {}
    /\ dialCount = [s \in Slaves |-> 1]

\* no client operation is in progress
NoMine ==
    [pc |-> "idle", mask |-> 0, randomizeOutput |-> FALSE, ecoPolled |-> {},
     eco |-> [b \in {} |-> 0], rootDifficulty |-> 0, winner |-> -1,
     headersPolled |-> {}, headers |-> [sh \in {} |-> 0],
     minorBranch |-> 0, minorSlave |-> 0, minorRequests |-> 0,
     result |-> "pending", resultBranch |-> 0, rootHeaders |-> <<>>]
NoTx ==
    [pc |-> "idle", branch |-> 0, sentTo |-> {}, resp |-> [s \in Slaves |-> "none"],
     result |-> "pending"]
NoFwd == <<>>
ClientIdle == mine = NoMine /\ tx = NoTx /\ fwd = NoFwd

\* the network collaborator: None until SimpleNetwork sets it, then a set of peers
Networks == {[attached |-> FALSE, peers |-> {}]} \cup
            {[attached |-> TRUE, peers |-> P] : P \in SUBSET Peers}

\* ----------------------------------------------- root-block update serializer

\* what rootState.addBlock(rBlock) does: returns True (tip updated), returns
\* False, or raises ValueError
Outcomes == {"tip", "notip", "invalid"}

\* a fresh activation of updateRooBlockAsync: updateTip = False
NewDrain ==
    [pc |-> "scheduled", updateTip |-> FALSE, rBlock |-> 0,
     resp |-> [s \in Slaves |-> "none"], calls |-> <<>>,
     notified |-> [p \in Peers |-> 0]]

\* no drain started, and the flag left alone, whatever the flag says
NeedsDrainNever(updating) == FALSE

\* a drain started on every call, whatever the flag says
NeedsDrainAlways(updating) == TRUE

\* updateRootBlock / addRootBlock: `if not self.isUpdatingRootBlock`
NeedsDrain(updating) == ~updating

\* `updateTip = updateTip or self.rootState.addBlock(rBlock)`: Python's `or`
\* evaluates its right operand only when the left one is false
EvaluatesAddBlock(updateTip) == ~updateTip

\* broadcastRpc: one request for every slave of the pool
BroadcastTargets(pool) == pool

\* a wait that resumes on the first answer instead of all of them
GatherFirstCompleted(resp, pool) == \E s \in pool : resp[s] # "none"

\* `await asyncio.gather(*futureList)`: resumes when every request is answered
GatherDone(resp, pool) == \A s \in pool : resp[s] # "none"

\* `check(all([resp.errorCode == 0 for _, resp, _ in resultList]))`, resultList
\* being the responses the gather has collected
AllErrorCodesZero(resp, pool) == \A s \in pool : resp[s] # "none" => resp[s] = "ok"

\* the peers notified whether or not the tip was updated
NotifiesTipAlways(updateTip, net) == net.attached

\* `if updateTip and self.network is not None`
NotifiesTip(updateTip, net) == updateTip /\ net.attached

\* The body of updateRooBlockAsync's while loop from the loop test up to the
\* next await: pops blocks until one is broadcast (bcast # 0) or the queue is
\* empty (bcast = 0).  called: the blocks addBlock was called on; popped: the
\* blocks popped.
RECURSIVE DrainLoop(_, _, _)
DrainLoop(q, updateTip, oc) ==
    IF Len(q) = 0
    THEN [queue |-> q, updateTip |-> updateTip, called |-> <<>>, popped |-> <<>>, bcast |-> 0]
    ELSE LET rBlock == Head(q)
             rest == Tail(q)
             evaluated == EvaluatesAddBlock(updateTip)
         IN IF evaluated /\ oc[rBlock] = "invalid"
            THEN \* except ValueError: continue
                 LET r == DrainLoop(rest, updateTip, oc)
                 IN [r EXCEPT !.called = <<rBlock>> \o @, !.popped = <<rBlock>> \o @]
            ELSE [queue |-> rest,
                  updateTip |-> updateTip \/ (evaluated /\ oc[rBlock] = "tip"),
                  called |-> IF evaluated THEN <<rBlock>> ELSE <<>>,
                  popped |-> <<rBlock>>,
                  bcast |-> rBlock]

\* Activation d of updateRooBlockAsync (a record of `base`) runs from the loop
\* test to its next await, or to its end, on queue q with outcomes oc.
DrainStep(base, d, q, updating, oc) ==
    LET dr == base[d]
        r == DrainLoop(q, dr.updateTip, oc)
    IN /\ rootBlockUpdateQueue' = r.queue
       /\ addBlockLog' = addBlockLog \o r.called
       /\ poppedLog' = poppedLog \o r.popped
       /\ IF r.bcast # 0
          THEN /\ drains' = [base EXCEPT ![d] =
                                [@ EXCEPT !.pc = "awaiting",
                                          !.updateTip = r.updateTip,
                                          !.rBlock = r.bcast,
                                          !.resp = [s \in Slaves |-> "none"],
                                          !.calls = @ \o r.called]]
               /\ slaveRecv' = [s \in Slaves |->
                                   IF s \in BroadcastTargets(slavePool)
                                   THEN Append(slaveRecv[s], r.bcast)
                                   ELSE slaveRecv[s]]
               /\ isUpdatingRootBlock' = updating
          ELSE /\ drains' = [base EXCEPT ![d] =
                                [@ EXCEPT !.pc = "done",
                                          !.updateTip = r.updateTip,
                                          !.calls = @ \o r.called,
                                          !.notified = [p \in Peers |->
                                              IF NotifiesTip(r.updateTip, network) /\ p \in network.peers
                                              THEN @[p] + 1 ELSE @[p]]]]
               /\ slaveRecv' = slaveRecv
               /\ isUpdatingRootBlock' = FALSE

\* MasterServer.updateRootBlock(rBlock): the peer receive path.  r is what
\* rootState.addBlock will do for the block.
UpdateRootBlock(r) ==
    /\ Len(outcome) < MaxBlocks
    /\ outcome' = Append(outcome, r)
    /\ rootBlockUpdateQueue' = Append(rootBlockUpdateQueue, Len(outcome) + 1)
    /\ IF NeedsDrain(isUpdatingRootBlock)
       THEN /\ isUpdatingRootBlock' = TRUE
            /\ drains' = Append(drains, NewDrain)
       ELSE UNCHANGED <<isUpdatingRootBlock, drains>>
    /\ UNCHANGED <<addBlockLog, poppedLog, slaveRecv, slaveAnswered>>
    /\ UNCHANGED <<bringUpVars, network, clientVars>>

\* MasterServer.addRootBlock(block): the local mining path, for a block that
\* rootState.validateBlock accepts (a rejected block raises before any change).
\* The drain is awaited inline, so it runs to its first await in this step.
AddRootBlock(r) ==
    /\ Len(outcome) < MaxBlocks
    /\ outcome' = Append(outcome, r)
    /\ IF NeedsDrain(isUpdatingRootBlock)
       THEN DrainStep(Append(drains, NewDrain), Len(drains) + 1,
                      Append(rootBlockUpdateQueue, Len(outcome) + 1),
                      TRUE, Append(outcome, r))
       ELSE /\ rootBlockUpdateQueue' = Append(rootBlockUpdateQueue, Len(outcome) + 1)
            /\ UNCHANGED <<isUpdatingRootBlock, drains, addBlockLog, poppedLog, slaveRecv>>
    /\ UNCHANGED slaveAnswered
    /\ UNCHANGED <<bringUpVars, network, clientVars>>

\* the event loop starts the drain that updateRootBlock scheduled with
\* ensure_future: check(self.isUpdatingRootBlock), then the loop
DrainStart(d) ==
    /\ d \in 1..Len(drains)
    /\ drains[d].pc = "scheduled"
    /\ IF isUpdatingRootBlock
       THEN DrainStep(drains, d, rootBlockUpdateQueue, isUpdatingRootBlock, outcome)
       ELSE /\ drains' = [drains EXCEPT ![d].pc = "aborted"]
            /\ UNCHANGED <<rootBlockUpdateQueue, isUpdatingRootBlock, addBlockLog,
                           poppedLog, slaveRecv>>
    /\ UNCHANGED <<outcome, slaveAnswered>>
    /\ UNCHANGED <<bringUpVars, network, clientVars>>

\* slave s answers the ADD_ROOT_BLOCK_REQUEST of drain d with error_code 0
\* ("ok") or a non-zero one ("err")
SlaveRespond(d, s, code) ==
    /\ d \in 1..Len(drains)
    /\ drains[d].pc = "awaiting"
    /\ s \in slavePool
    /\ drains[d].resp[s] = "none"
    /\ drains' = [drains EXCEPT ![d].resp[s] = code]
    /\ slaveAnswered' = [slaveAnswered EXCEPT ![s] = @ + 1]
    /\ UNCHANGED <<rootBlockUpdateQueue, isUpdatingRootBlock, outcome, addBlockLog,
                   poppedLog, slaveRecv>>
    /\ UNCHANGED <<bringUpVars, network, clientVars>>

\* the gather of drain d completes: the check on the error codes, then the
\* loop again; a failed check raises and ends the coroutine where it stands
DrainResume(d) ==
    /\ d \in 1..Len(drains)
    /\ drains[d].pc = "awaiting"
    /\ GatherDone(drains[d].resp, slavePool)
    /\ IF AllErrorCodesZero(drains[d].resp, slavePool)
       THEN DrainStep(drains, d, rootBlockUpdateQueue, isUpdatingRootBlock, outcome)
       ELSE /\ drains' = [drains EXCEPT ![d].pc = "aborted"]
            /\ UNCHANGED <<rootBlockUpdateQueue, isUpdatingRootBlock, addBlockLog,
                           poppedLog, slaveRecv>>
    /\ UNCHANGED <<outcome, slaveAnswered>>
    /\ UNCHANGED <<bringUpVars, network, clientVars>>

\* MasterServer.__init__ for the serializer's fields, on a cluster that is up
Init ==
    /\ ClusterUp
    /\ ClientIdle
    /\ network \in Networks
    /\ rootBlockUpdateQueue = <<>>
    /\ isUpdatingRootBlock = FALSE
    /\ outcome = <<>>
    /\ drains = <<>>
    /\ addBlockLog = <<>>
    /\ poppedLog = <<>>
    /\ slaveRecv = [s \in Slaves |-> <<>>]
    /\ slaveAnswered = [s \in Slaves |-> 0]

Next ==
    \/ \E r \in Outcomes : UpdateRootBlock(r)
    \/ \E r \in Outcomes : AddRootBlock(r)
    \/ \E d \in 1..Len(drains) : DrainStart(d)
    \/ \E d \in 1..Len(drains), s \in Slaves, code \in {"ok", "err"} : SlaveRespond(d, s, code)
    \/ \E d \in 1..Len(drains) : DrainResume(d)

Spec == Init /\ [][Next]_vars

\* the serializer with slaves that answer every ADD_ROOT_BLOCK_REQUEST with
\* error_code 0
NextAllOk ==
    \/ \E r \in Outcomes : UpdateRootBlock(r)
    \/ \E r \in Outcomes : AddRootBlock(r)
    \/ \E d \in 1..Len(drains) : DrainStart(d)
    \/ \E d \in 1..Len(drains), s \in Slaves : SlaveRespond(d, s, "ok")
    \/ \E d \in 1..Len(drains) : DrainResume(d)

\* what the event loop and the slaves do without a new call: a scheduled
\* drain is started, a request is answered, a completed gather is resumed
DrainProgress ==
    \/ \E d \in 1..Len(drains) : DrainStart(d)
    \/ \E d \in 1..Len(drains), s \in Slaves : SlaveRespond(d, s, "ok")
    \/ \E d \in 1..Len(drains) : DrainResume(d)

\* the event loop runs every ready callback and every slave answers
SpecAllOk == Init /\ [][NextAllOk]_vars /\ WF_vars(DrainProgress)


\* ------------------------------------------------------------------ bring-up

\* the configurations: slave i of the list has id i and any non-empty mask list
Configs == {c \in [1..NumSlaves -> [id : Slaves, shardMaskList : MaskLists]] :
               \A i \in 1..NumSlaves : c[i].id = i}

\* the result lists of a CONNECT_TO_SLAVES response: each slot is the length of
\* its string (0: the empty string, success)
ResultLists == SeqsUpTo({0, 1}, NumSlaves)

\* a shutdown that rejects the readiness future without looking at it
ShutdownUnguarded(futs) == [shutdown |-> "result", active |-> "exception"]

\* MasterServer.shutdown on the pair of futures
Shutdown(futs) ==
    [shutdown |-> IF futs.shutdown = "pending" THEN "result" ELSE futs.shutdown,
     active |-> IF futs.active = "pending" THEN "exception" ELSE futs.active]

\* the list of a branch overwritten instead of appended to
RegisterShardOverwrite(b2s, branchValue, slave) ==
    [b \in DOMAIN b2s \cup {branchValue} |->
        IF b = branchValue THEN <<slave>> ELSE b2s[b]]

\* `self.branchToSlaves.setdefault(branch.value, []).append(slave)`
RegisterShard(b2s, branchValue, slave) ==
    IF branchValue \in DOMAIN b2s
    THEN [b2s EXCEPT ![branchValue] = Append(@, slave)]
    ELSE [b \in DOMAIN b2s \cup {branchValue} |->
             IF b = branchValue THEN <<slave>> ELSE b2s[b]]

\* the loop `for shardId in range(self.__getShardSize())` of __connectToSlaves,
\* from shardId on
RECURSIVE RegisterSlave(_, _, _, _)
RegisterSlave(b2s, slave, shardMaskList, shardId) ==
    IF shardId >= ShardSize THEN b2s
    ELSE RegisterSlave(
             IF HasShard(shardMaskList, shardId)
             THEN RegisterShard(b2s, BranchCreate(ShardSize, shardId), slave)
             ELSE b2s,
             slave, shardMaskList, shardId + 1)

\* the number of keys not compared with the shard size
HasAllShardsNonEmptyOnly(b2s) == \A b \in DOMAIN b2s : Len(b2s[b]) > 0

\* the number of keys compared with <= instead of ==
HasAllShardsAtMost(b2s) ==
    /\ Cardinality(DOMAIN b2s) <= ShardSize
    /\ \A b \in DOMAIN b2s : Len(b2s[b]) > 0

\* MasterServer.__hasAllShards
HasAllShards(b2s) ==
    /\ Cardinality(DOMAIN b2s) = ShardSize
    /\ \A b \in DOMAIN b2s : Len(b2s[b]) > 0

\* the shard-mask list of the PING response not compared
MasksMatchUnchecked(shardMaskList, slaveInfo) == TRUE

\* the comparison of a PING response with the configured slave:
\* `id != slaveInfo.id`, `shardMaskList != slaveInfo.shardMaskList`
IdMatches(id, slaveInfo) == id = slaveInfo.id
MasksMatch(shardMaskList, slaveInfo) == shardMaskList = slaveInfo.shardMaskList

\* a mesh check that looks at the first result slot only
ConnectToSlavesFirstSlotOnly(resultList) ==
    Len(resultList) = 0 \/ resultList[1] = 0

\* SlaveConnection.sendConnectToSlaves: False as soon as a slot is non-empty
ConnectToSlavesSucceeded(resultList) ==
    \A i \in 1..Len(resultList) : ~(resultList[i] > 0)

\* the end of __initCluster: clusterActiveFuture.set_result(None), which raises
\* InvalidStateError on a future that is already done
SetActiveResult(active) ==
    IF active = "pending"
    THEN [active |-> "result", pc |-> "done"]
    ELSE [active |-> active, pc |-> "invalid_state"]

\* __connect has succeeded for the slave at slaveIdx (after any number of
\* retries), the SlaveConnection is active and the PING request is sent
Connected ==
    /\ initPc = "dial"
    /\ initPc' = "ping"
    /\ dialCount' = [dialCount EXCEPT ![slaveIdx] = @ + 1]
    /\ UNCHANGED <<branchToSlaves, slavePool, clusterActiveFuture, shutdownFuture,
                   clusterConfig, slaveIdx, meshTodo, meshCur, connectSent,
                   mismatchSeen, meshFailed, meshOk, closed>>
    /\ UNCHANGED <<rootVars, network, clientVars>>

\* The PING response (id, shardMaskList) of the slave at slaveIdx arrives:
\* the rest of the loop body of __connectToSlaves and, after the last slave,
\* __initCluster up to its next await.
PingResponse(id, shardMaskList) ==
    /\ initPc = "ping"
    /\ slaveIdx \notin closed
    /\ LET slaveInfo == clusterConfig[slaveIdx]
           f0 == [shutdown |-> shutdownFuture, active |-> clusterActiveFuture]
           f1 == IF IdMatches(id, slaveInfo) THEN f0 ELSE Shutdown(f0)
           f2 == IF MasksMatch(shardMaskList, slaveInfo) THEN f1 ELSE Shutdown(f1)
           pool == slavePool \cup {slaveIdx}
           b2s == RegisterSlave(branchToSlaves, slaveIdx, slaveInfo.shardMaskList, 0)
       IN /\ shutdownFuture' = f2.shutdown
          /\ clusterActiveFuture' = f2.active
          /\ mismatchSeen' = (mismatchSeen \/ id # slaveInfo.id
                                \/ shardMaskList # slaveInfo.shardMaskList)
          /\ slavePool' = pool
          /\ branchToSlaves' = b2s
          /\ IF slaveIdx < Len(clusterConfig)
             THEN /\ slaveIdx' = slaveIdx + 1
                  /\ initPc' = "dial"
                  /\ UNCHANGED <<meshTodo, meshCur, connectSent>>
             ELSE /\ slaveIdx' = slaveIdx + 1
                  /\ IF ~HasAllShards(b2s)
                     THEN \* "Missing some shards": return
                          /\ initPc' = "aborted"
                          /\ UNCHANGED <<meshTodo, meshCur, connectSent>>
                     ELSE \* first iteration of `for slave in self.slavePool`
                          \E s \in pool :
                              /\ initPc' = "mesh"
                              /\ meshCur' = s
                              /\ meshTodo' = pool \ {s}
                              /\ connectSent' = connectSent \cup {s}
    /\ UNCHANGED <<clusterConfig, meshFailed, meshOk, closed, dialCount>>
    /\ UNCHANGED <<rootVars, network, clientVars>>

\* The CONNECT_TO_SLAVES response of slave meshCur arrives: the rest of
\* sendConnectToSlaves, the loop of __setupSlaveToSlaveConnections up to the
\* next request and, after the last slave, the end of __initCluster.
MeshResponse(resultList) ==
    /\ initPc = "mesh"
    /\ meshCur \notin closed
    /\ IF Len(resultList) # Len(clusterConfig)
       THEN \* check(len(resp.resultList) == len(slaveInfoList)) raises
            /\ initPc' = "assert_failed"
            /\ UNCHANGED <<clusterActiveFuture, shutdownFuture, meshTodo, meshCur,
                           connectSent, meshFailed, meshOk>>
       ELSE LET success == ConnectToSlavesSucceeded(resultList)
                f0 == [shutdown |-> shutdownFuture, active |-> clusterActiveFuture]
                f1 == IF success THEN f0 ELSE Shutdown(f0)
                allEmpty == \A i \in 1..Len(resultList) : resultList[i] = 0
            IN /\ shutdownFuture' = f1.shutdown
               /\ meshFailed' = (meshFailed \/ ~allEmpty)
               /\ meshOk' = (IF allEmpty THEN meshOk \cup {meshCur} ELSE meshOk)
               /\ IF meshTodo # {}
                  THEN \E s \in meshTodo :
                           /\ meshCur' = s
                           /\ meshTodo' = meshTodo \ {s}
                           /\ connectSent' = connectSent \cup {s}
                           /\ initPc' = "mesh"
                           /\ clusterActiveFuture' = f1.active
                  ELSE /\ clusterActiveFuture' = SetActiveResult(f1.active).active
                       /\ initPc' = SetActiveResult(f1.active).pc
                       /\ meshCur' = 0
                       /\ UNCHANGED <<meshTodo, connectSent>>
    /\ UNCHANGED <<branchToSlaves, slavePool, clusterConfig, slaveIdx, mismatchSeen,
                   closed, dialCount>>
    /\ UNCHANGED <<rootVars, network, clientVars>>

\* a close that forgets to shut the Master down
OnCloseNoShutdown(futs) == futs

\* SlaveConnection.close: `self.masterServer.shutdown()`
OnClose(futs) == Shutdown(futs)

\* The stream of the SlaveConnection of slave s is lost: SlaveConnection.close.
LinkClose(s) ==
    /\ dialCount[s] > 0
    /\ s \notin closed
    /\ closed' = closed \cup {s}
    /\ LET f == OnClose([shutdown |-> shutdownFuture, active |-> clusterActiveFuture])
       IN /\ shutdownFuture' = f.shutdown
          /\ clusterActiveFuture' = f.active
    /\ UNCHANGED <<branchToSlaves, slavePool, clusterConfig, initPc, slaveIdx, meshTodo,
                   meshCur, connectSent, mismatchSeen, meshFailed, meshOk, dialCount>>
    /\ UNCHANGED <<rootVars, network, clientVars>>

\* The RPC that __initCluster awaits was written to a link that is closed: it
\* fails with a connection-lost error, which ends the task.
ConnectionLost ==
    /\ \/ initPc = "ping" /\ slaveIdx \in closed
       \/ initPc = "mesh" /\ meshCur \in closed
    /\ initPc' = "conn_lost"
    /\ UNCHANGED <<branchToSlaves, slavePool, clusterActiveFuture, shutdownFuture,
                   clusterConfig, slaveIdx, meshTodo, meshCur, connectSent,
                   mismatchSeen, meshFailed, meshOk, closed, dialCount>>
    /\ UNCHANGED <<rootVars, network, clientVars>>

\* MasterServer.__init__ and start(): the __initCluster task is about to dial
\* the first configured slave
InitBringUp ==
    /\ clusterConfig \in Configs
    /\ branchToSlaves = [b \in {} |-> <<>>]
    /\ slavePool = {}
    /\ clusterActiveFuture = "pending"
    /\ shutdownFuture = "pending"
    /\ initPc = "dial"
    /\ slaveIdx = 1
    /\ meshTodo = {}
    /\ meshCur = 0
    /\ connectSent = {}
    /\ mismatchSeen = FALSE
    /\ meshFailed = FALSE
    /\ meshOk = {}
    /\ closed = {}
    /\ dialCount = [s \in Slaves |-> 0]
    /\ ClientIdle
    /\ network = [attached |-> FALSE, peers |-> {}]
    /\ rootBlockUpdateQueue = <<>>
    /\ isUpdatingRootBlock = FALSE
    /\ outcome = <<>>
    /\ drains = <<>>
    /\ addBlockLog = <<>>
    /\ poppedLog = <<>>
    /\ slaveRecv = [s \in Slaves |-> <<>>]
    /\ slaveAnswered = [s \in Slaves |-> 0]

NextBringUp ==
    \/ Connected
    \/ \E id \in Slaves, shardMaskList \in MaskLists : PingResponse(id, shardMaskList)
    \/ \E resultList \in ResultLists : MeshResponse(resultList)

SpecBringUp == InitBringUp /\ [][NextBringUp]_vars

\* the bring-up of a cluster whose configuration covers all shards, with
\* slave links that may be lost at any time, before and after readiness
InitLinkLoss ==
    /\ InitBringUp
    /\ clusterConfig \in {FullConfig, PartitionedConfig}

NextLinkLoss ==
    \/ Connected
    \/ \E id \in Slaves, shardMaskList \in MaskLists : PingResponse(id, shardMaskList)
    \/ \E resultList \in ResultLists : MeshResponse(resultList)
    \/ \E s \in Slaves : LinkClose(s)
    \/ ConnectionLost

SpecLinkLoss == InitLinkLoss /\ [][NextLinkLoss]_vars


\* ------------------------------------------------------ the mining dispatcher

\* the shard of a branch value: Branch.getShardId
BranchShardId(branchValue) == branchValue - ShardSize

\* ShardMask.hasOverlap: the two masks select a common shard
MaskHasOverlap(mask, other) ==
    \E sh \in Shards : ContainShardId(mask, sh) /\ ContainShardId(other, sh)

\* ShardMask.containBranch
ContainBranch(mask, branchValue) == ContainShardId(mask, BranchShardId(branchValue))

\* SlaveConnection.hasOverlap
SlaveHasOverlap(shardMaskList, shardMask) ==
    \E i \in 1..Len(shardMaskList) : MaskHasOverlap(shardMaskList[i], shardMask)

\* the registry __connectToSlaves builds when it walks the first n slaves of config
RECURSIVE RegistryOf(_, _)
RegistryOf(config, n) ==
    IF n = 0 THEN [b \in {} |-> <<>>]
    ELSE RegisterSlave(RegistryOf(config, n - 1), config[n].id, config[n].shardMaskList, 0)

\* the Master after MasterServer.__initCluster has completed on config
ReadyCluster(config) ==
    /\ clusterConfig = config
    /\ slavePool = Slaves
    /\ branchToSlaves = RegistryOf(config, NumSlaves)
    /\ clusterActiveFuture = "result"
    /\ shutdownFuture = "pending"
    /\ initPc = "done"
    /\ slaveIdx = NumSlaves + 1
    /\ meshTodo = {}
    /\ meshCur = 0
    /\ connectSent = Slaves
    /\ mismatchSeen = FALSE
    /\ meshFailed = FALSE
    /\ meshOk = Slaves
    /\ closed = {}
    /\ dialCount = [s \in Slaves |-> 1]

\* no root block has arrived
RootIdle ==
    /\ rootBlockUpdateQueue = <<>>
    /\ isUpdatingRootBlock = FALSE
    /\ outcome = <<>>
    /\ drains = <<>>
    /\ addBlockLog = <<>>
    /\ poppedLog = <<>>
    /\ slaveRecv = [s \in Slaves |-> <<>>]
    /\ slaveAnswered = [s \in Slaves |-> 0]

\* the EcoInfo records a slave may report for a branch
EcoInfos == [height : 0..MaxHeight, difficulty : 1..MaxDifficulty,
             coinbaseAmount : 0..MaxAmount,
             unconfirmedHeadersCoinbaseAmount : 0..MaxAmount]

\* the orders in which the elements of S may be iterated
Orders(S) == {o \in [1..Cardinality(S) -> S] :
                 \A i, j \in 1..Cardinality(S) : i # j => o[i] # o[j]}

\* a poll of every slave, whatever the mask
EcoTargetsAll(pool, config, shardMaskValue) == pool

\* the slaves getNextBlockToMine sends GET_ECO_INFO_LIST to:
\* `if shardMask and not slave.hasOverlap(shardMask): continue`
EcoTargets(pool, config, shardMaskValue) ==
    {s \in pool : shardMaskValue = 0
                     \/ SlaveHasOverlap(config[s].shardMaskList, shardMaskValue)}

\* the keys of branchValueToEcoInfo: each polled slave reports every shard it
\* serves, and the replicas of a shard report the same EcoInfo
ReportedBranches(targets, config) ==
    {BranchCreate(ShardSize, sh) : sh \in {x \in Shards :
        \E s \in targets : HasShard(config[s].shardMaskList, x)}}

\* the sum of unconfirmedHeadersCoinbaseAmount over the branches in B
RECURSIVE SumUnconfirmed(_, _)
SumUnconfirmed(eco, B) ==
    IF B = {} THEN 0
    ELSE LET b == CHOOSE x \in B : TRUE
         IN eco[b].unconfirmedHeadersCoinbaseAmount + SumUnconfirmed(eco, B \ {b})

\* `rootCoinbaseAmount = rootCoinbaseAmount // 2`
RootCoinbaseAmount(eco) == SumUnconfirmed(eco, DOMAIN eco) \div 2

\* a ratio amount / difficulty, kept as its two terms; difficulties are positive
Ratio(num, den) == [num |-> num, den |-> den]
EcoGreater(a, b) == a.num * b.den > b.num * a.den
EcoEqual(a, b) == a.num * b.den = b.num * a.den

\* an eco that ignores the difficulty
EcoAmountOnly(ecoInfo) == Ratio(ecoInfo.coinbaseAmount, 1)

\* `eco = ecoInfo.coinbaseAmount / ecoInfo.difficulty`
Eco(ecoInfo) == Ratio(ecoInfo.coinbaseAmount, ecoInfo.difficulty)

\* branchValueWithMaxEco is None
NoBranch == -1

\* an initial winner that is the root whatever the mask
InitialWinnerRoot(shardMaskValue) == 0

\* `branchValueWithMaxEco = 0 if shardMask is None else None`
InitialWinner(shardMaskValue) == IF shardMaskValue = 0 THEN 0 ELSE NoBranch

\* a replacement test without the tie-break by height
ReplacesNoHeight(st, eco, height) ==
    st.winner = NoBranch \/ EcoGreater(eco, st.maxEco)

\* the test of lines 366-367: the candidate replaces the winner
Replaces(st, eco, height) ==
    \/ st.winner = NoBranch
    \/ EcoGreater(eco, st.maxEco)
    \/ EcoEqual(eco, st.maxEco) /\ st.winner > 0 /\ st.blockHeight > height

\* The loop over branchValueToEcoInfo.items() from position i of the iteration
\* order on: the set of the states the loop may end in, one for every outcome
\* of the draws of random.random().  The random replacement leaves blockHeight
\* as it is.
RECURSIVE SelectFrom(_, _, _, _, _, _)
SelectFrom(st, order, i, eco, shardMaskValue, randomizeOutput) ==
    IF i > Len(order) THEN {st}
    ELSE LET branchValue == order[i]
             ecoInfo == eco[branchValue]
             e == Eco(ecoInfo)
         IN IF shardMaskValue # 0 /\ ~ContainBranch(shardMaskValue, branchValue)
            THEN SelectFrom(st, order, i + 1, eco, shardMaskValue, randomizeOutput)
            ELSE IF Replaces(st, e, ecoInfo.height)
            THEN SelectFrom([winner |-> branchValue, maxEco |-> e, dupEcoCount |-> 1,
                             blockHeight |-> ecoInfo.height],
                            order, i + 1, eco, shardMaskValue, randomizeOutput)
            ELSE IF EcoEqual(e, st.maxEco) /\ randomizeOutput
            THEN IF st.winner > 0 /\ st.blockHeight < ecoInfo.height
                 THEN SelectFrom(st, order, i + 1, eco, shardMaskValue, randomizeOutput)
                 ELSE SelectFrom([st EXCEPT !.dupEcoCount = @ + 1, !.winner = branchValue,
                                            !.maxEco = e],
                                 order, i + 1, eco, shardMaskValue, randomizeOutput)
                      \cup
                      SelectFrom([st EXCEPT !.dupEcoCount = @ + 1],
                                 order, i + 1, eco, shardMaskValue, randomizeOutput)
            ELSE SelectFrom(st, order, i + 1, eco, shardMaskValue, randomizeOutput)

\* lines 351-380: the branch values the selection may end with
Selection(eco, order, rootDifficulty, shardMaskValue, randomizeOutput) ==
    {st.winner : st \in
        SelectFrom([winner |-> InitialWinner(shardMaskValue),
                    maxEco |-> Ratio(RootCoinbaseAmount(eco), rootDifficulty),
                    dupEcoCount |-> 1, blockHeight |-> 0],
                   order, 1, eco, shardMaskValue, randomizeOutput)}

\* MasterServer.getSlaveConnection: the first slave registered for the branch
GetSlaveConnection(b2s, branchValue) == b2s[branchValue][1]

\* shardIdToHeaderList after the merge of lines 291-301, as the number of
\* headers of every shard, -1 for a shard without an entry; the replicas of a
\* shard report the same header list
HeaderReports == [Shards -> -1..MaxHeaders]

\* `len(shardIdToHeaderList.get(shardId, []))`
HeaderCount(merged, shardId) == IF merged[shardId] < 0 THEN 0 ELSE merged[shardId]

\* the highest shard short of proof of progress
LastBelowProgress(merged) ==
    IF \A sh \in Shards : HeaderCount(merged, sh) >= ProofOfProgressBlocks
    THEN ShardSize
    ELSE CHOOSE sh \in Shards :
             /\ HeaderCount(merged, sh) < ProofOfProgressBlocks
             /\ \A x \in Shards : HeaderCount(merged, x) < ProofOfProgressBlocks => x <= sh

\* the loop of lines 305-311: the first shard whose header count is below
\* PROOF_OF_PROGRESS_BLOCKS, ShardSize if there is none
FirstBelowProgress(merged) ==
    IF \A sh \in Shards : HeaderCount(merged, sh) >= ProofOfProgressBlocks
    THEN ShardSize
    ELSE CHOOSE sh \in Shards :
             /\ HeaderCount(merged, sh) < ProofOfProgressBlocks
             /\ \A x \in Shards : HeaderCount(merged, x) < ProofOfProgressBlocks => sh <= x

\* `headerList.extend(headers)` for the shards from shardId on: header k of
\* shard sh is <<sh, k>>
RECURSIVE HeaderList(_, _)
HeaderList(merged, shardId) ==
    IF shardId >= ShardSize THEN <<>>
    ELSE [k \in 1..HeaderCount(merged, shardId) |-> <<shardId, k>>]
             \o HeaderList(merged, shardId + 1)

\* __getMinorBlockToMine up to its await: GET_NEXT_BLOCK_TO_MINE_REQUEST goes
\* to the slave of the branch
RequestMinorBlock(m, b2s, branchValue) ==
    [m EXCEPT !.pc = "minor", !.minorBranch = branchValue,
              !.minorSlave = GetSlaveConnection(b2s, branchValue),
              !.minorRequests = @ + 1]

\* getNextBlockToMine up to `await asyncio.gather(*futures)`
MineCall(shardMaskValue, randomizeOutput) ==
    /\ mine.pc = "idle"
    /\ mine' = [mine EXCEPT !.pc = "eco", !.mask = shardMaskValue,
                            !.randomizeOutput = randomizeOutput,
                            !.ecoPolled = EcoTargets(slavePool, clusterConfig,
                                                     shardMaskValue)]
    /\ UNCHANGED <<rootVars, bringUpVars, network, tx, fwd>>

\* a GET_ECO_INFO_LIST response has errorCode # 0: `return (None, None)`
EcoError ==
    /\ mine.pc = "eco"
    /\ mine.ecoPolled # {}
    /\ mine' = [mine EXCEPT !.pc = "done", !.result = "NONE"]
    /\ UNCHANGED <<rootVars, bringUpVars, network, tx, fwd>>

\* All GET_ECO_INFO_LIST responses are in: the selection runs, and the root
\* path asks every slave for its unconfirmed headers, the shard path asks the
\* slave of the winner for a minor block.
EcoGathered(eco, order, rootDifficulty) ==
    /\ mine.pc = "eco"
    /\ \E winner \in Selection(eco, order, rootDifficulty, mine.mask, mine.randomizeOutput) :
          LET m == [mine EXCEPT !.eco = eco, !.rootDifficulty = rootDifficulty,
                                !.winner = winner]
          IN mine' = IF winner = 0
                     THEN [m EXCEPT !.pc = "headers", !.headersPolled = slavePool]
                     ELSE IF winner = NoBranch
                     THEN [m EXCEPT !.pc = "raised"]
                     ELSE RequestMinorBlock(m, branchToSlaves, winner)
    /\ UNCHANGED <<rootVars, bringUpVars, network, tx, fwd>>

\* A GET_UNCONFIRMED_HEADERS response has errorCode # 0, or a headersInfo of
\* another shard size: `return (None, None)`.  The locals of the selection
\* are dead from here on.
HeadersFailed ==
    /\ mine.pc = "headers"
    /\ mine' = [mine EXCEPT !.pc = "done", !.result = "NONE",
                            !.eco = [b \in {} |-> 0], !.rootDifficulty = 0]
    /\ UNCHANGED <<rootVars, bringUpVars, network, tx, fwd>>

\* All GET_UNCONFIRMED_HEADERS responses are in and merged: the root block
\* is created, or a minor block is asked for on the first shard short of proof
\* of progress.
HeadersGathered(merged) ==
    /\ mine.pc = "headers"
    /\ LET shardId == FirstBelowProgress(merged)
           m == [mine EXCEPT !.headers = merged, !.eco = [b \in {} |-> 0],
                             !.rootDifficulty = 0]
       IN mine' = IF shardId < ShardSize
                  THEN RequestMinorBlock(m, branchToSlaves,
                                         BranchCreate(ShardSize, shardId))
                  ELSE [m EXCEPT !.pc = "done", !.result = "ROOT",
                                 !.rootHeaders = HeaderList(merged, 0)]
    /\ UNCHANGED <<rootVars, bringUpVars, network, tx, fwd>>

\* The GET_NEXT_BLOCK_TO_MINE response is in: `response.block if
\* response.errorCode == 0 else None`, then `(None, None) if not block else
\* (False, block)`.
MinorResponse(hasBlock) ==
    /\ mine.pc = "minor"
    /\ mine' = [mine EXCEPT !.pc = "done",
                            !.result = IF hasBlock THEN "MINOR" ELSE "NONE",
                            !.resultBranch = IF hasBlock THEN mine.minorBranch ELSE 0]
    /\ UNCHANGED <<rootVars, bringUpVars, network, tx, fwd>>

\* a cluster that is up, on a configuration with or without replicas
InitMining ==
    /\ \E config \in {FullConfig, PartitionedConfig} : ReadyCluster(config)
    /\ RootIdle
    /\ ClientIdle
    /\ network = [attached |-> FALSE, peers |-> {}]

NextMining ==
    \/ \E shardMaskValue \in 0..(Pow2(ShardSize) - 1), randomizeOutput \in BOOLEAN :
          MineCall(shardMaskValue, randomizeOutput)
    \/ EcoError
    \/ /\ mine.pc = "eco"
       /\ \E eco \in [ReportedBranches(mine.ecoPolled, clusterConfig) -> EcoInfos] :
             \E order \in Orders(DOMAIN eco), rootDifficulty \in 1..MaxDifficulty :
                 EcoGathered(eco, order, rootDifficulty)
    \/ HeadersFailed
    \/ /\ mine.pc = "headers"
       /\ \E merged \in HeaderReports : HeadersGathered(merged)
    \/ \E hasBlock \in BOOLEAN : MinorResponse(hasBlock)

SpecMining == InitMining /\ [][NextMining]_vars


\* ------------------------------------------------------------ addTransaction

\* the branch values a transaction may carry: those of the shards, and
\* values that are no key of branchToSlaves
TxBranchValues == 0..(2 * ShardSize)

\* the first replica only
TxTargetsFirstOnly(b2s, branchValue) == {b2s[branchValue][1]}

\* `for slave in self.branchToSlaves[branch.value]`
TxTargets(b2s, branchValue) ==
    {b2s[branchValue][i] : i \in 1..Len(b2s[branchValue])}

\* MasterServer.addTransaction up to `await asyncio.gather(*futures)`, or to
\* `return False` for a branch that is no key of branchToSlaves
AddTransaction(branchValue) ==
    /\ tx.pc = "idle"
    /\ tx' = IF branchValue \notin DOMAIN branchToSlaves
             THEN [tx EXCEPT !.pc = "done", !.branch = branchValue,
                             !.result = "failure"]
             ELSE [tx EXCEPT !.pc = "sent", !.branch = branchValue,
                             !.sentTo = TxTargets(branchToSlaves, branchValue)]
    /\ UNCHANGED <<rootVars, bringUpVars, network, mine, fwd>>

\* slave s answers its ADD_TRANSACTION_REQUEST: SlaveConnection.addTransaction
\* returns `resp.errorCode == 0`
TxResponse(s, ok) ==
    /\ tx.pc = "sent"
    /\ s \in tx.sentTo
    /\ tx.resp[s] = "none"
    /\ tx' = [tx EXCEPT !.resp[s] = IF ok THEN "ok" ELSE "error"]
    /\ UNCHANGED <<rootVars, bringUpVars, network, mine, fwd>>

\* the gather is complete: `return all(results)`
TxReturn ==
    /\ tx.pc = "sent"
    /\ \A s \in tx.sentTo : tx.resp[s] # "none"
    /\ tx' = [tx EXCEPT !.pc = "done",
                        !.result = IF \A s \in tx.sentTo : tx.resp[s] = "ok"
                                   THEN "success" ELSE "failure"]
    /\ UNCHANGED <<rootVars, bringUpVars, network, mine, fwd>>

\* a cluster that is up, on any configuration that covers all shards
InitTx ==
    /\ \E config \in Configs :
          /\ HasAllShards(RegistryOf(config, NumSlaves))
          /\ ReadyCluster(config)
    /\ RootIdle
    /\ ClientIdle
    /\ network = [attached |-> FALSE, peers |-> {}]

NextTx ==
    \/ \E branchValue \in TxBranchValues : AddTransaction(branchValue)
    \/ \E s \in Slaves, ok \in BOOLEAN : TxResponse(s, ok)
    \/ TxReturn

SpecTx == InitTx /\ [][NextTx]_vars


\* ------------------------------------------------------ the forwarding rule

\* the cluster_peer_id values a frame may carry: 0, the ids peers may have,
\* and one id no peer ever has
ClusterPeerIds == 0..(NumPeers + 1)

\* connections: None, NULL_CONNECTION, a P2PConnection, a SlaveConnection
NoConnection == [kind |-> "none", id |-> 0]
NullConnection == [kind |-> "null", id |-> 0]
PeerConnection(p) == [kind |-> "peer", id |-> p]
SlaveLink(s) == [kind |-> "slave", id |-> s]
Connections == {NoConnection, NullConnection} \cup {PeerConnection(p) : p \in Peers}
                  \cup {SlaveLink(s) : s \in Slaves}

\* network.getPeerByClusterPeerId: the peer registered under the id, or None
GetPeerByClusterPeerId(net, clusterPeerId) ==
    IF clusterPeerId \in net.peers THEN PeerConnection(clusterPeerId) ELSE NoConnection

\* MasterServer.getPeer
GetPeer(net, clusterPeerId) ==
    IF ~net.attached THEN NoConnection
    ELSE GetPeerByClusterPeerId(net, clusterPeerId)

\* a forwarding rule without the test for local frames
GetConnectionToForwardNoLocal(net, clusterPeerId) ==
    IF GetPeer(net, clusterPeerId) = NoConnection THEN NullConnection
    ELSE GetPeer(net, clusterPeerId)

\* SlaveConnection.getConnectionToForward
GetConnectionToForward(net, clusterPeerId) ==
    IF clusterPeerId = 0 THEN NoConnection
    ELSE LET peer == GetPeer(net, clusterPeerId)
         IN IF peer = NoConnection THEN NullConnection ELSE peer

\* SlaveConnection.validateConnection
ValidateConnection(connection) ==
    connection = NullConnection \/ connection.kind = "peer"

\* A frame with metadata.clusterPeerId arrives on a slave link: the link asks
\* getConnectionToForward for its target.
InboundFrame(clusterPeerId) ==
    /\ Len(fwd) < MaxFrames
    /\ LET target == GetConnectionToForward(network, clusterPeerId)
       IN fwd' = Append(fwd, [op |-> "frame", clusterPeerId |-> clusterPeerId,
                              connection |-> target,
                              valid |-> ValidateConnection(target)])
    /\ UNCHANGED <<rootVars, bringUpVars, network, mine, tx>>

\* validateConnection is asked about a connection.
Validate(connection) ==
    /\ Len(fwd) < MaxFrames
    /\ fwd' = Append(fwd, [op |-> "validate", clusterPeerId |-> 0,
                           connection |-> connection,
                           valid |-> ValidateConnection(connection)])
    /\ UNCHANGED <<rootVars, bringUpVars, network, mine, tx>>

InitForward == Init

NextForward ==
    \/ \E clusterPeerId \in ClusterPeerIds : InboundFrame(clusterPeerId)
    \/ \E connection \in Connections : Validate(connection)

SpecForward == InitForward /\ [][NextForward]_vars


\* -------------------------------------------------------------------- claims

\* the activations of updateRooBlockAsync that are scheduled or suspended
RunningDrains == {d \in 1..Len(drains) : drains[d].pc \in {"scheduled", "awaiting"}}

\* the blocks enqueued so far, in order of enqueueing
Enqueued == [b \in 1..Len(outcome) |-> b]

\* some call of addBlock made by drain record dr returned updated_tip = True
TipReturned(dr) == \E i \in 1..Len(dr.calls) : outcome[dr.calls[i]] = "tip"

\* a shard that no configured slave serves
Unserved(sh) == \A i \in 1..Len(clusterConfig) : ~HasShard(clusterConfig[i].shardMaskList, sh)

\* __connectToSlaves has walked the whole configured list
WalkedAllSlaves == slaveIdx > Len(clusterConfig)

\* C1: at most one drain of the root-block update queue runs at any time, and
\* a call of updateRootBlock or addRootBlock that arrives while a drain runs
\* only appends its block to the queue and starts no drain.
C1_AtMostOneDrain ==
    /\ [](Cardinality(RunningDrains) <= 1)
    /\ [][(RunningDrains # {} /\ Len(outcome') > Len(outcome))
            => /\ drains' = drains
               /\ rootBlockUpdateQueue' = Append(rootBlockUpdateQueue, Len(outcome'))]_vars

\* C1 witness: two calls arrived while the one drain is suspended in its gather
C1_Witness ==
    /\ Len(drains) = 1
    /\ drains[1].pc = "awaiting"
    /\ drains[1].rBlock = 1
    /\ rootBlockUpdateQueue = <<2, 3>>

\* C2: every slave receives the ADD_ROOT_BLOCK_REQUESTs in the same order, the
\* order of popping, which is the order of enqueueing; and no slave is sent a
\* later block before every slave has answered the block broadcast before it.
C2_BroadcastOrder ==
    /\ poppedLog = SubSeq(Enqueued, 1, Len(poppedLog))
    /\ \A s, t \in Slaves : slaveRecv[s] = slaveRecv[t]
    /\ \A s \in Slaves : \A i, j \in 1..Len(slaveRecv[s]) :
           i < j => slaveRecv[s][i] < slaveRecv[s][j]
    /\ \A s \in Slaves : \A i \in 1..Len(slaveRecv[s]) :
           \E k \in 1..Len(poppedLog) : poppedLog[k] = slaveRecv[s][i]
    /\ \A s, t \in Slaves : Len(slaveRecv[t]) <= slaveAnswered[s] + 1

\* C2 witness: a second block is broadcast after all answered the first
C2_Witness ==
    \A s \in Slaves : Len(slaveRecv[s]) >= 2 /\ slaveAnswered[s] >= 1

\* C3: a block that rootState.addBlock rejects is never broadcast, and when
\* the queue is drained the slaves have received exactly the enqueued blocks
\* that addBlock accepts, in FIFO order.
C3_InvalidDiscarded ==
    /\ \A s \in Slaves : \A i \in 1..Len(slaveRecv[s]) :
           outcome[slaveRecv[s][i]] # "invalid"
    /\ (rootBlockUpdateQueue = <<>> /\ ~isUpdatingRootBlock)
          => \A s \in Slaves :
                 slaveRecv[s] = SelectSeq(Enqueued, LAMBDA b : outcome[b] # "invalid")

\* C4: rootState.addBlock is called on every popped block, once, in pop
\* order, and no block is broadcast that addBlock was not called on.
C4_EveryPoppedBlockApplied ==
    /\ addBlockLog = poppedLog
    /\ \A s \in Slaves : \A i \in 1..Len(slaveRecv[s]) :
           \E k \in 1..Len(addBlockLog) : addBlockLog[k] = slaveRecv[s][i]

\* C5 as claimed: a drain that is over has called sendUpdatedTip on every
\* connected peer once if a block it applied returned updated_tip = true,
\* and on no peer otherwise; a drain that is not over has called it on none.
C5_TipNotificationEveryDrain ==
    \A d \in 1..Len(drains) : \A p \in network.peers :
        drains[d].notified[p] =
            IF drains[d].pc \in {"done", "aborted"} /\ TipReturned(drains[d]) THEN 1 ELSE 0

\* C5, amended: the same for the drains that run to completion; a drain that
\* the assertion on the error codes aborted has notified no peer; and
\* sendUpdatedTip is called only in the step that finds the queue empty and
\* ends the drain.
C5_TipNotification ==
    /\ [](\A d \in 1..Len(drains) : \A p \in Peers :
            drains[d].notified[p] =
                IF drains[d].pc = "done" /\ TipReturned(drains[d]) /\ p \in network.peers
                THEN 1 ELSE 0)
    /\ [][\A d \in 1..Len(drains') :
            (drains'[d].notified # NewDrain.notified
               /\ (d > Len(drains) \/ drains[d].notified = NewDrain.notified))
            => /\ rootBlockUpdateQueue' = <<>>
               /\ drains'[d].pc = "done"
               /\ \A s \in Slaves : slaveAnswered[s] = Len(slaveRecv[s])]_vars

\* C5 witness: a drain of two blocks completed and notified the peer once
C5_Witness ==
    /\ network.peers # {}
    /\ \E d \in 1..Len(drains) :
          /\ drains[d].pc = "done"
          /\ Len(drains[d].calls) >= 2
          /\ \A p \in network.peers : drains[d].notified[p] = 1

\* C6: whenever the readiness future holds a result, every shard has a key in
\* branchToSlaves and a non-empty list of slaves.
C6_ShardCoverage ==
    clusterActiveFuture = "result"
        => \A sh \in Shards :
               /\ BranchCreate(ShardSize, sh) \in DOMAIN branchToSlaves
               /\ Len(branchToSlaves[BranchCreate(ShardSize, sh)]) > 0

\* C6 witness: the cluster became ready although a slave serves one shard only
C6_Witness ==
    /\ clusterActiveFuture = "result"
    /\ initPc = "done"
    /\ \E i \in 1..Len(clusterConfig), sh \in Shards :
           ~HasShard(clusterConfig[i].shardMaskList, sh)

\* C7: once all configured slaves are walked, the list of a shard's branch
\* holds exactly the slaves that have the shard, each once, in the order of
\* the configured list, and a shard that no slave has is no key.
C7_RegistryConstruction ==
    WalkedAllSlaves
        => \A sh \in Shards :
               LET serving == SelectSeq([i \in 1..Len(clusterConfig) |-> i],
                                  LAMBDA i : HasShard(clusterConfig[i].shardMaskList, sh))
                   b == BranchCreate(ShardSize, sh)
               IN IF serving = <<>>
                  THEN b \notin DOMAIN branchToSlaves
                  ELSE b \in DOMAIN branchToSlaves /\ branchToSlaves[b] = serving

\* C7 witness: slave 1 serves shard 1 only, slave 2 serves shards 0 and 1
C7_Witness ==
    /\ WalkedAllSlaves
    /\ clusterConfig[1].shardMaskList = <<2>>
    /\ clusterConfig[2].shardMaskList = <<3>>
    /\ DOMAIN branchToSlaves = {BranchCreate(ShardSize, 0), BranchCreate(ShardSize, 1)}
    /\ branchToSlaves[BranchCreate(ShardSize, 0)] = <<2>>
    /\ branchToSlaves[BranchCreate(ShardSize, 1)] = <<1, 2>>

\* C8: once a PING response differed from the configuration, the shutdown
\* future is resolved and the readiness future holds an error, for the rest
\* of the bring-up.
C8_HandshakeMismatchFatal ==
    mismatchSeen => shutdownFuture = "result" /\ clusterActiveFuture = "exception"

\* C8 witness: the bring-up went on to its end after a mismatch and its
\* set_result was refused
C8_Witness == mismatchSeen /\ initPc = "invalid_state"

\* C9: the readiness future holds a result only if all shards are covered and
\* the mesh is up, and every bring-up failure (handshake mismatch, mesh
\* failure, a shard left uncovered after all slaves are walked) has resolved
\* it with an error.
C9_ReadinessAlwaysResolves ==
    /\ clusterActiveFuture = "result"
          => HasAllShards(branchToSlaves) /\ ~meshFailed /\ ~mismatchSeen
    /\ (mismatchSeen \/ meshFailed \/ (WalkedAllSlaves /\ \E sh \in Shards : Unserved(sh)))
          => clusterActiveFuture = "exception"

\* C10: when all slaves are walked and some shard is served by none, the
\* bring-up has stopped: no CONNECT_TO_SLAVES was sent, the readiness future
\* holds no result, and the futures are untouched unless a handshake
\* mismatch or the loss of a slave link resolved them.
C10_MissingCoverageAborts ==
    (WalkedAllSlaves /\ \E sh \in Shards : Unserved(sh))
        => /\ initPc = "aborted"
           /\ connectSent = {}
           /\ clusterActiveFuture # "result"
           /\ (~mismatchSeen /\ closed = {})
                 => shutdownFuture = "pending" /\ clusterActiveFuture = "pending"

\* C10 witness: the bring-up stopped on a missing shard, no future resolved
C10_Witness ==
    /\ initPc = "aborted"
    /\ \E sh \in Shards : Unserved(sh)
    /\ shutdownFuture = "pending"

\* a step in which shutdown() is called: a link is closed, or the first
\* handshake mismatch or the first failed mesh response is met
ShutdownCalled ==
    \/ closed' # closed
    \/ ~mismatchSeen /\ mismatchSeen'
    \/ ~meshFailed /\ meshFailed'

\* C11: a future that is resolved never changes its outcome, and every step
\* in which shutdown() is called leaves the shutdown future resolved and the
\* readiness future rejected if it was pending, unchanged otherwise (so a
\* readiness result survives, and a repeated call changes nothing).
C11_ShutdownIdempotent ==
    [][ /\ shutdownFuture # "pending" => shutdownFuture' = shutdownFuture
        /\ clusterActiveFuture # "pending" => clusterActiveFuture' = clusterActiveFuture
        /\ ShutdownCalled
              => /\ shutdownFuture' = "result"
                 /\ clusterActiveFuture' = (IF clusterActiveFuture = "pending"
                                             THEN "exception"
                                             ELSE clusterActiveFuture) ]_vars

\* C11 witness: shutdown() was called twice, by the close of two links, on
\* a cluster that had become ready
C11_Witness ==
    /\ Cardinality(closed) >= 2
    /\ clusterActiveFuture = "result"
    /\ shutdownFuture = "result"

\* the registry keeps every list it has, as a prefix of the list it has next
RegistryKept ==
    \A b \in DOMAIN branchToSlaves :
        /\ b \in DOMAIN branchToSlaves'
        /\ Len(branchToSlaves'[b]) >= Len(branchToSlaves[b])
        /\ SubSeq(branchToSlaves'[b], 1, Len(branchToSlaves[b])) = branchToSlaves[b]

\* C12: whenever a slave link is closed the shutdown future is resolved, and
\* no step dials a slave whose link is closed, takes it out of the slave pool
\* or removes or replaces an entry of the registry.
C12_FailStopOnLinkLoss ==
    /\ [](closed # {} => shutdownFuture = "result")
    /\ [][ /\ \A s \in closed : /\ dialCount'[s] = dialCount[s]
                                /\ s \in slavePool => s \in slavePool'
           /\ closed # {} => RegistryKept ]_vars

\* C12 witness: one link was closed during bring-up, after its slave was
\* registered, and another one is closed too
C12_Witness ==
    /\ \E s \in closed : s \in slavePool /\ clusterActiveFuture = "exception"
    /\ Cardinality(closed) >= 2

C13_ForwardingRule ==
    \A i \in 1..Len(fwd) :
        LET e == fwd[i]
            registered == network.attached /\ e.clusterPeerId \in network.peers
        IN /\ e.op = "frame" /\ e.clusterPeerId = 0 => e.connection.kind = "none"
           /\ e.op = "frame" /\ e.clusterPeerId # 0
                 => /\ e.connection.kind # "none"
                    /\ registered
                          => e.connection = [kind |-> "peer", id |-> e.clusterPeerId]
                    /\ ~registered => e.connection.kind = "null"
                    /\ e.valid
           /\ e.valid <=> e.connection.kind \in {"null", "peer"}

\* C13 witness: one frame went to a registered peer, one to the null sink,
\* and a slave connection was rejected as target
C13_Witness ==
    /\ \E i \in 1..Len(fwd) : fwd[i].op = "frame" /\ fwd[i].connection.kind = "peer"
    /\ \E i \in 1..Len(fwd) : fwd[i].op = "frame" /\ fwd[i].connection.kind = "null"
    /\ \E i \in 1..Len(fwd) : fwd[i].connection.kind = "slave" /\ ~fwd[i].valid

\* the selection of getNextBlockToMine has run and its locals are at hand
Selected == DOMAIN mine.eco # {}

\* the branches the selection may consider under the mask of the call
Candidates ==
    {b \in DOMAIN mine.eco : mine.mask = 0 \/ ContainShardId(mine.mask, b - ShardSize)}

\* a / b >= c / d for positive b and d
RatGeq(a, b, c, d) == a * d >= c * b

\* the eco of branch x is at least that of branch y, and equal to it
ShardEcoGeq(x, y) ==
    RatGeq(mine.eco[x].coinbaseAmount, mine.eco[x].difficulty,
           mine.eco[y].coinbaseAmount, mine.eco[y].difficulty)
ShardEcoSame(x, y) == ShardEcoGeq(x, y) /\ ShardEcoGeq(y, x)

\* the coinbase amount of the root candidate
RootCoinbase == SumUnconfirmed(mine.eco, DOMAIN mine.eco) \div 2

\* C15: with a non-zero mask GET_ECO_INFO_LIST goes to exactly the slaves with
\* a mask that shares a shard with it, the root is never the winner, no root
\* block is returned, and the branch a minor block is asked for is a shard of
\* the mask; with mask 0 every slave is polled.
C15_MaskRestrictsSelection ==
    mine.pc # "idle" =>
        /\ mine.mask = 0 => mine.ecoPolled = slavePool
        /\ mine.mask # 0 =>
              /\ mine.ecoPolled =
                    {s \in slavePool :
                        \E i \in 1..Len(clusterConfig[s].shardMaskList), sh \in Shards :
                            /\ ContainShardId(clusterConfig[s].shardMaskList[i], sh)
                            /\ ContainShardId(mine.mask, sh)}
              /\ mine.winner # 0
              /\ mine.headersPolled = {}
              /\ mine.result # "ROOT"
              /\ mine.minorBranch # 0
                    => ContainShardId(mine.mask, mine.minorBranch - ShardSize)

\* C15 witness: a mask that leaves a slave out, and a minor block of a shard
\* of the mask returned
C15_Witness ==
    /\ mine.mask # 0
    /\ mine.ecoPolled # slavePool
    /\ mine.result = "MINOR"

\* the case of C16: no randomization, no mask, a root without unconfirmed
\* coinbase, and all shards with one difficulty and one coinbase amount
C16Case ==
    /\ Selected
    /\ ~mine.randomizeOutput
    /\ mine.mask = 0
    /\ SumUnconfirmed(mine.eco, DOMAIN mine.eco) = 0
    /\ \A x, y \in DOMAIN mine.eco :
          /\ mine.eco[x].difficulty = mine.eco[y].difficulty
          /\ mine.eco[x].coinbaseAmount = mine.eco[y].coinbaseAmount

\* the winner is a shard, and no shard is lower than it
WinnerIsLowestShard ==
    /\ mine.winner \in DOMAIN mine.eco
    /\ \A b \in DOMAIN mine.eco : mine.eco[mine.winner].height <= mine.eco[b].height

\* C16 as stated: in the case of C16 the winner is the shard with the lowest
\* height, whatever the coinbase amount and the iteration order.
C16_LowestHeightWins == C16Case => WinnerIsLowestShard

\* C16: in the case of C16 and with a positive coinbase amount, the winner is
\* the shard with the lowest height, whatever the iteration order.
C16_LowestHeightWinsPositive ==
    (C16Case /\ \A b \in DOMAIN mine.eco : mine.eco[b].coinbaseAmount > 0)
        => WinnerIsLowestShard

\* C16 witness: two shards of different heights in the case of C16, positive
\* coinbase amount, and the minor block of the winner asked for
C16_Witness ==
    /\ C16Case
    /\ \A b \in DOMAIN mine.eco : mine.eco[b].coinbaseAmount > 0
    /\ \E x, y \in DOMAIN mine.eco : mine.eco[x].height < mine.eco[y].height
    /\ mine.pc = "minor"

\* the merge of the unconfirmed headers was reached: every response had
\* errorCode 0 and the configured shard size
HeadersMerged == DOMAIN mine.headers # {}

\* the shards short of proof of progress
BelowProgress ==
    {sh \in Shards : (IF mine.headers[sh] < 0 THEN 0 ELSE mine.headers[sh])
                        < ProofOfProgressBlocks}

\* rootHeaders is the header lists of all shards in ascending shard order
RootHeadersInShardOrder ==
    /\ \A i \in 1..Len(mine.rootHeaders) :
          /\ mine.rootHeaders[i][1] \in Shards
          /\ mine.rootHeaders[i][2] \in 1..mine.headers[mine.rootHeaders[i][1]]
    /\ \A sh \in Shards : \A k \in 1..mine.headers[sh] :
          \E i \in 1..Len(mine.rootHeaders) : mine.rootHeaders[i] = <<sh, k>>
    /\ \A i, j \in 1..Len(mine.rootHeaders) :
          i < j => \/ mine.rootHeaders[i][1] < mine.rootHeaders[j][1]
                   \/ /\ mine.rootHeaders[i][1] = mine.rootHeaders[j][1]
                      /\ mine.rootHeaders[i][2] < mine.rootHeaders[j][2]

\* what step R has done once it has passed its gather: the root block from
\* all headers if no shard is short of proof of progress; otherwise one minor
\* block request, for the lowest shard that is short, and a result that is
\* that minor block or none
RootOrFallback ==
    IF mine.result = "ROOT"
    THEN HeadersMerged /\ BelowProgress = {} /\ RootHeadersInShardOrder
                       /\ mine.minorRequests = 0
    ELSE /\ HeadersMerged
         /\ BelowProgress # {}
         /\ mine.minorRequests = 1
         /\ mine.minorBranch - ShardSize \in BelowProgress
         /\ \A sh \in BelowProgress : mine.minorBranch - ShardSize <= sh
         /\ mine.pc = "done"
               => \/ mine.result = "NONE"
                  \/ mine.result = "MINOR" /\ mine.resultBranch = mine.minorBranch

\* C17 as stated: whenever the root is the winner and step R has passed its
\* gather, it has returned the root block or asked for the fallback minor block.
C17_ProofOfProgressFallback ==
    (mine.winner = 0 /\ mine.pc \in {"minor", "done"}) => RootOrFallback

\* C17: whenever the root is the winner and every GET_UNCONFIRMED_HEADERS
\* response had errorCode 0 and the configured shard size, step R has returned
\* the root block or asked for the fallback minor block; without such
\* responses it returns none and asks for no minor block.
C17_ProofOfProgressFallbackOnGoodResponses ==
    (mine.winner = 0 /\ mine.pc \in {"minor", "done"})
        => IF HeadersMerged THEN RootOrFallback
           ELSE mine.result = "NONE" /\ mine.minorRequests = 0

\* C17 witness: shard 0 has proof of progress, shard 1 has not, and the minor
\* block of shard 1 is returned
C17_Witness ==
    /\ mine.winner = 0
    /\ HeadersMerged
    /\ BelowProgress = {1}
    /\ mine.result = "MINOR"
    /\ mine.resultBranch = ShardSize + 1

\* C19: the winner is the root or a candidate shard, its eco is at least the
\* eco of every candidate shard and, when the root is a candidate, of the root;
\* on the shard path exactly one minor block is asked for, of the winner, and
\* the result is that block or none.
C19_MaximalEco ==
    /\ Selected =>
          /\ mine.winner # NoBranch
          /\ mine.winner > 0 =>
                /\ mine.winner \in Candidates
                /\ \A c \in Candidates : ShardEcoGeq(mine.winner, c)
                /\ mine.mask = 0 =>
                      RatGeq(mine.eco[mine.winner].coinbaseAmount,
                             mine.eco[mine.winner].difficulty,
                             RootCoinbase, mine.rootDifficulty)
          /\ mine.winner = 0 =>
                /\ mine.mask = 0
                /\ \A c \in Candidates :
                      RatGeq(RootCoinbase, mine.rootDifficulty,
                             mine.eco[c].coinbaseAmount, mine.eco[c].difficulty)
    /\ (mine.winner > 0 /\ mine.pc \in {"minor", "done"}) =>
          /\ mine.minorRequests = 1
          /\ mine.minorBranch = mine.winner
          /\ mine.headersPolled = {}
          /\ mine.pc = "done"
                => \/ mine.result = "NONE"
                   \/ mine.result = "MINOR" /\ mine.resultBranch = mine.winner

\* C19 witness: the eco of the root lies strictly between those of two shards,
\* the slave of the winner answers with an error and the result is none
C19_Witness ==
    /\ Selected
    /\ mine.mask = 0
    /\ mine.winner > 0
    /\ ~RatGeq(RootCoinbase, mine.rootDifficulty,
               mine.eco[mine.winner].coinbaseAmount, mine.eco[mine.winner].difficulty)
    /\ \E c \in Candidates :
          ~RatGeq(mine.eco[c].coinbaseAmount, mine.eco[c].difficulty,
                  RootCoinbase, mine.rootDifficulty)
    /\ mine.pc = "done"
    /\ mine.result = "NONE"

\* C20: with randomization, a winner that is a shard has no candidate shard
\* of equal eco and strictly lower height beside it.
C20_LowerHeightAmongTies ==
    (Selected /\ mine.randomizeOutput /\ mine.winner > 0)
        => \A c \in Candidates :
              ShardEcoSame(c, mine.winner)
                  => mine.eco[c].height >= mine.eco[mine.winner].height

\* C18: a transaction of a branch that is no key of branchToSlaves fails
\* without any request; otherwise ADD_TRANSACTION goes to every slave of the
\* branch's list and to no other, the call returns only when all of them have
\* answered, and it succeeds exactly if all of them answered with errorCode 0.
C18_AddTransactionFanOut ==
    tx.pc # "idle" =>
        /\ \A s \in Slaves \ tx.sentTo : tx.resp[s] = "none"
        /\ IF tx.branch \notin DOMAIN branchToSlaves
           THEN tx.pc = "done" /\ tx.result = "failure" /\ tx.sentTo = {}
           ELSE /\ tx.sentTo = {s \in Slaves :
                                   \E i \in 1..Len(branchToSlaves[tx.branch]) :
                                       branchToSlaves[tx.branch][i] = s}
                /\ tx.pc = "done"
                      => /\ \A s \in tx.sentTo : tx.resp[s] # "none"
                         /\ tx.result = "success"
                               <=> \A s \in tx.sentTo : tx.resp[s] = "ok"
                /\ tx.pc # "done" => tx.result = "pending"

\* C18 witness: a branch with two replicas, the first answers 0, the second
\* an error, and the call has failed
C18_Witness ==
    /\ tx.pc = "done"
    /\ tx.branch \in DOMAIN branchToSlaves
    /\ Len(branchToSlaves[tx.branch]) >= 2
    /\ tx.resp[branchToSlaves[tx.branch][1]] = "ok"
    /\ tx.resp[branchToSlaves[tx.branch][2]] = "error"
    /\ tx.result = "failure"

\* block b was popped from the queue
Consumed(b) == \E i \in 1..Len(poppedLog) : poppedLog[i] = b

\* the blocks popped so far, followed by the queue, are the blocks that
\* arrived, in arrival order: each is popped at most once and in FIFO order
PoppedInFifoOrder ==
    poppedLog \o rootBlockUpdateQueue = [i \in 1..Len(outcome) |-> i]

\* a popped block was applied to the root state and then broadcast to every
\* slave, or it failed validation and was broadcast to none
AppliedOrDiscarded(b) ==
    /\ \E i \in 1..Len(addBlockLog) : addBlockLog[i] = b
    /\ \A s \in Slaves :
          (\E i \in 1..Len(slaveRecv[s]) : slaveRecv[s][i] = b) <=> outcome[b] # "invalid"

\* every block that arrives is popped later, and a non-empty queue leads to
\* an empty queue with the flag cleared
EventuallyDrained ==
    /\ \A b \in 1..MaxBlocks : (Len(outcome) >= b) ~> Consumed(b)
    /\ (rootBlockUpdateQueue # <<>>)
          ~> (rootBlockUpdateQueue = <<>> /\ ~isUpdatingRootBlock)

\* C21: with slaves that always answer 0 and a fair event loop, every block
\* that arrives is popped later, exactly once and in FIFO order, it is then
\* applied and broadcast or discarded as invalid, and the queue ends empty
\* with the flag cleared.
C21_EveryBlockConsumed ==
    /\ []PoppedInFifoOrder
    /\ [](\A i \in 1..Len(poppedLog) : AppliedOrDiscarded(poppedLog[i]))
    /\ EventuallyDrained

\* some drain was ended by the assertion on the slaves' error codes
DrainAborted == \E d \in 1..Len(drains) : drains[d].pc = "aborted"

\* the flag is cleared only in a step in which a drain found the queue empty
\* and ended
FlagClearedAtEmptyQueue ==
    (isUpdatingRootBlock /\ ~isUpdatingRootBlock')
        => /\ rootBlockUpdateQueue' = <<>>
           /\ \E d \in 1..Len(drains') :
                 /\ drains'[d].pc = "done"
                 /\ d \in 1..Len(drains) => drains[d].pc \in {"scheduled", "awaiting"}

\* C22 as stated: a non-empty queue implies that the flag is set and a drain
\* is scheduled or suspended, and the flag is cleared only in the step in
\* which a drain found the queue empty.
C22_NoStrandedBlock ==
    /\ [](rootBlockUpdateQueue # <<>> => isUpdatingRootBlock /\ RunningDrains # {})
    /\ [][FlagClearedAtEmptyQueue]_vars

\* C22: a non-empty queue implies that the flag is set, and that a drain is
\* scheduled or suspended unless a drain was aborted by the assertion on the
\* error codes; the flag is cleared only in the step in which a drain found
\* the queue empty.
C22_NoStrandedBlockUnlessAborted ==
    /\ [](rootBlockUpdateQueue # <<>>
            => isUpdatingRootBlock /\ (RunningDrains # {} \/ DrainAborted))
    /\ [][FlagClearedAtEmptyQueue]_vars

\* C22 witness: a block arrived while the one drain was suspended, the drain
\* went on to pop it, found the queue empty and cleared the flag
C22_Witness ==
    /\ Len(drains) = 1
    /\ drains[1].pc = "done"
    /\ Len(poppedLog) >= 2
    /\ rootBlockUpdateQueue = <<>>
    /\ ~isUpdatingRootBlock

\* C23: once a drain was aborted by the assertion on the error codes the flag
\* stays set, and every later step is a call that appends its block to the
\* queue and nothing else: no block is popped, applied or broadcast, no drain
\* is started and no peer is notified.
C23_FailStopAfterAbort ==
    /\ [](DrainAborted => isUpdatingRootBlock)
    /\ [][DrainAborted
            => /\ isUpdatingRootBlock'
               /\ drains' = drains
               /\ addBlockLog' = addBlockLog
               /\ poppedLog' = poppedLog
               /\ slaveRecv' = slaveRecv
               /\ Len(outcome') = Len(outcome) + 1
               /\ rootBlockUpdateQueue' = Append(rootBlockUpdateQueue, Len(outcome'))]_vars

\* C23 witness: the drain was aborted on its first block, and two later calls
\* have left their blocks in the queue
C23_Witness ==
    /\ DrainAborted
    /\ Len(addBlockLog) = 1
    /\ Len(rootBlockUpdateQueue) >= 2
    /\ \A s \in Slaves : Len(slaveRecv[s]) = 1

====
